---- MODULE Spec2Model ----
(***************************************************************************)
(* Model of src/codeEditor.py: the Houdini Python panel.                   *)
(*                                                                         *)
(*   SpecBracket : PythonCodeEditor.findMatchingBracket applied to every   *)
(*                 bounded text, position and direction, and               *)
(*                 highlightCurrentLine on cursor moves.                   *)
(*   SpecEditor  : one PythonCodeEditor under key presses: keyPressEvent,  *)
(*                 the completion popup and insertCompletion.              *)
(*   SpecIface   : createInterface / destroyInterface, the deferred        *)
(*                 deletion of the panels, and their autosave timers.      *)
(*   SpecPanel   : one VSCodeLikePanel: tabs, open_file, save_file and the *)
(*                 autosave timer.                                         *)
(*   SpecRun     : one VSCodeLikePanel: run_code on the current editor.    *)
(*                                                                         *)
(* Text is a sequence of one-character strings.  Positions are the 0-based *)
(* Python / Qt positions of the source; PyAt converts to TLA+ indexing.    *)
(* Editor texts of the panel specifications are whole strings.             *)
(***************************************************************************)
EXTENDS Integers, Sequences, FiniteSets, TLC

VARIABLES
    text,        \* QPlainTextEdit.toPlainText() of the editor
    cursor,      \* textCursor().position()
    extraSel,    \* highlightCurrentLine: bracket_positions, and whether it raised
    call,        \* the last findMatchingBracket call: pos, forward, result
    completion_prefix,  \* self.completion_prefix, also the completer's prefix
    completerModel,     \* the string list the QCompleter completes from
    popupVisible,       \* self.completer.popup().isVisible()
    key,                \* the last editor event and whether its handler raised
    instance,           \* the module global _instance: 0 for None, else the panel
    created,            \* how many VSCodeLikePanel objects were constructed so far
    disposed,           \* the panels on which deleteLater() was called
    deleted,            \* the panels the event loop has deleted since
    older,              \* the panels awaiting deletion that a newer panel followed
    iface,              \* the last lifecycle call and what it returned
    dialog,             \* "save" while save_file waits in getSaveFileName
    tabs,               \* tab_widget: the editors in tab order (id, text, title) and,
                        \* per editor, the files opened or first saved in it
    currentIndex,       \* tab_widget.currentIndex(), -1 without tabs
    editors,            \* how many PythonCodeEditor objects this panel constructed
    current_file,       \* self.current_file
    recent_files,       \* self.recent_files
    file_history,       \* self.file_history
    disk,               \* the content of the files on disk
    output_console,     \* the lines of the output console
    op,                 \* the last panel operation or tick: what it wrote, whether it raised
    sys_stdout,         \* sys.stdout
    sys_stderr,         \* sys.stderr
    run                 \* the last run_code call: what ran, what it raised

edVars == <<text, cursor, extraSel, completion_prefix, completerModel, popupVisible, key>>

edAll == <<text, cursor, extraSel, call, completion_prefix, completerModel,
           popupVisible, key>>

ifVars == <<instance, created, disposed, deleted, older, iface>>

panelVars == <<tabs, currentIndex, editors, current_file, recent_files,
               file_history, disk, output_console, op, dialog>>

vars == <<text, cursor, extraSel, call, completion_prefix, completerModel,
          popupVisible, key, instance, created, disposed, deleted, older, iface,
          tabs, currentIndex, editors, current_file, recent_files, file_history,
          disk, output_console, op, dialog, sys_stdout, sys_stderr, run>>

runVars == <<sys_stdout, sys_stderr, run>>

(***************************************************************************)
(* Bounds                                                                  *)
(***************************************************************************)
MaxLen == 4      \* longest enumerated bracket text
MaxPanels == 2   \* panels constructed in one run
MaxEditors == 2  \* editors constructed by one panel
MaxConsole == 1  \* lines the console holds before it is cleared
MaxBuf == 3      \* events are taken while the buffer is no longer, typing while it is shorter

(***************************************************************************)
(* Python values                                                           *)
(***************************************************************************)
\* Return values of findMatchingBracket: an index, None, or a raised IndexError.
Idx(i) == [tag |-> "idx", val |-> i]
None == [tag |-> "None", val |-> 0]
IndexError == [tag |-> "IndexError", val |-> 0]

Range(q) == {q[k] : k \in 1 .. Len(q)}

\* All sequences over S of length at most n.
SeqsUpTo(S, n) == UNION {[1..k -> S] : k \in 0..n}

\* text[i] of a Python str: legal for -len <= i < len, negative i counts from the end.
PyIndexOK(t, i) == i >= 0 - Len(t) /\ i < Len(t)
PyAt(t, i) == IF i >= 0 THEN t[i + 1] ELSE t[Len(t) + i + 1]

(***************************************************************************)
(* findMatchingBracket                                                     *)
(***************************************************************************)
Opening == {"(", "[", "{"}
Closing == {")", "]", "}"}

\* The dict `brackets`; "" stands for brackets.get(current) being None.
brackets(c) ==
    CASE c = "(" -> ")"
      [] c = "[" -> "]"
      [] c = "{" -> "}"
      [] c = ")" -> "("
      [] c = "]" -> "["
      [] c = "}" -> "{"
      [] OTHER -> ""

\* A scan that answers at the first pair character, without the depth counter.
RECURSIVE FwdScanNoDepth(_, _, _, _, _)
FwdScanNoDepth(t, current, match, i, depth) ==
    IF i >= Len(t) THEN None
    ELSE IF PyAt(t, i) = match THEN Idx(i)
    ELSE FwdScanNoDepth(t, current, match, i + 1, depth)

\* for i in range(pos, len(text)): ...
RECURSIVE FwdScan(_, _, _, _, _)
FwdScan(t, current, match, i, depth) ==
    IF i >= Len(t) THEN None
    ELSE IF PyAt(t, i) = current THEN FwdScan(t, current, match, i + 1, depth + 1)
    ELSE IF PyAt(t, i) = match
         THEN IF depth - 1 = 0 THEN Idx(i)
              ELSE FwdScan(t, current, match, i + 1, depth - 1)
    ELSE FwdScan(t, current, match, i + 1, depth)

\* A backward scan that answers at the first pair character.
RECURSIVE BwdScanNoDepth(_, _, _, _, _)
BwdScanNoDepth(t, current, match, i, depth) ==
    IF i < 0 THEN None
    ELSE IF PyAt(t, i) = match THEN Idx(i)
    ELSE BwdScanNoDepth(t, current, match, i - 1, depth)

\* for i in range(pos, -1, -1): ...
RECURSIVE BwdScan(_, _, _, _, _)
BwdScan(t, current, match, i, depth) ==
    IF i < 0 THEN None
    ELSE IF PyAt(t, i) = current THEN BwdScan(t, current, match, i - 1, depth + 1)
    ELSE IF PyAt(t, i) = match
         THEN IF depth - 1 = 0 THEN Idx(i)
              ELSE BwdScan(t, current, match, i - 1, depth - 1)
    ELSE BwdScan(t, current, match, i - 1, depth)

\* A variant that tests the index before reading text[pos].
findMatchingBracketGuarded(t, pos, forward) ==
    IF pos < 0 \/ pos >= Len(t) THEN None
    ELSE IF brackets(PyAt(t, pos)) = "" THEN None
    ELSE IF forward THEN FwdScan(t, PyAt(t, pos), brackets(PyAt(t, pos)), pos, 0)
    ELSE BwdScan(t, PyAt(t, pos), brackets(PyAt(t, pos)), pos, 0)

findMatchingBracket(t, pos, forward) ==
    IF ~PyIndexOK(t, pos) THEN IndexError              \* current = text[pos]
    ELSE IF brackets(PyAt(t, pos)) = "" THEN None      \* if not match: return None
    ELSE IF forward THEN FwdScan(t, PyAt(t, pos), brackets(PyAt(t, pos)), pos, 0)
    ELSE BwdScan(t, PyAt(t, pos), brackets(PyAt(t, pos)), pos, 0)

NoCall == [pos |-> 0, forward |-> TRUE, ret |-> None, made |-> FALSE]

(***************************************************************************)
(* highlightCurrentLine: the bracket part                                  *)
(***************************************************************************)
\* QTextDocument.characterAt(pos): the null character outside the document,
\* the paragraph separator at a block end (a newline of toPlainText and the
\* final position), the character itself elsewhere.
characterAt(t, pos) ==
    IF pos < 0 \/ pos > Len(t) THEN "NUL"
    ELSE IF pos = Len(t) THEN "PS"
    ELSE IF t[pos + 1] = "\n" THEN "PS"
    ELSE t[pos + 1]

\* One iteration of `for char, pos in (...)`: the positions it appends.
bracketPair(t, char, pos) ==
    IF char \in Opening
    THEN LET match == findMatchingBracket(t, pos, TRUE)
         IN  IF match.tag = "idx" THEN <<pos, match.val>> ELSE <<>>
    ELSE IF char \in Closing
    THEN LET match == findMatchingBracket(t, pos, FALSE)
         IN  IF match.tag = "idx" THEN <<pos, match.val>> ELSE <<>>
    ELSE <<>>

\* Whether that iteration's findMatchingBracket call raises.
bracketRaises(t, char, pos) ==
    \/ char \in Opening /\ findMatchingBracket(t, pos, TRUE).tag = "IndexError"
    \/ char \in Closing /\ findMatchingBracket(t, pos, FALSE).tag = "IndexError"

highlightCurrentLine(t, cur) ==
    LET prev_char == characterAt(t, cur - 1)
        next_char == characterAt(t, cur)
    IN  IF bracketRaises(t, prev_char, cur - 1) \/ bracketRaises(t, next_char, cur)
        THEN [bracket_positions |-> <<>>, raised |-> TRUE]
        ELSE [bracket_positions |-> bracketPair(t, prev_char, cur - 1)
                                    \o bracketPair(t, next_char, cur),
              raised |-> FALSE]

(***************************************************************************)
(* VSCodeLikePanel: tabs, files, autosave; createInterface/destroyInterface *)
(***************************************************************************)
NoFile == "None"                 \* current_file = None, or a cancelled dialog
Files == {"f1.py", "f2.py"}      \* the files a file dialog can name
Texts == {"", "a"}               \* editor and file contents

InitDisk == [f \in Files |-> IF f = "f1.py" THEN "a" ELSE ""]

NoOp == [name |-> "none", wrote |-> NoFile, raised |-> FALSE]
NoIface == [name |-> "none", ret |-> 0, prev |-> 0, destroyed |-> FALSE]

NoRun == [evalRuns |-> 0, execRuns |-> 0, userRaised |-> "none",
          propagated |-> "none", during |-> <<"none", "none">>, made |-> FALSE]

\* The interpreter's streams before any run: the host's own objects.
RunIdle ==
    /\ sys_stdout = "host_stdout"
    /\ sys_stderr = "host_stderr"
    /\ run = NoRun

\* The state of the panel variables while no panel object exists.
NoPanel ==
    /\ instance = 0
    /\ created = 0
    /\ disposed = {}
    /\ deleted = {}
    /\ older = {}
    /\ iface = NoIface
    /\ tabs = <<>>
    /\ currentIndex = -1
    /\ editors = 0
    /\ current_file = NoFile
    /\ recent_files = <<>>
    /\ file_history = <<>>
    /\ disk = InitDisk
    /\ output_console = <<>>
    /\ op = NoOp
    /\ dialog = "none"

(***************************************************************************)
(* The completer and the word under the cursor                             *)
(***************************************************************************)
\* The list handed to QCompleter(keywords, self) in PythonCodeEditor.__init__
keywords ==
    <<
       <<"a", "n", "d">>,                                         \* and
       <<"a", "s">>,                                              \* as
       <<"a", "s", "s", "e", "r", "t">>,                          \* assert
       <<"b", "r", "e", "a", "k">>,                               \* break
       <<"c", "l", "a", "s", "s">>,                               \* class
       <<"c", "o", "n", "t", "i", "n", "u", "e">>,                \* continue
       <<"d", "e", "f">>,                                         \* def
       <<"d", "e", "l">>,                                         \* del
       <<"e", "l", "i", "f">>,                                    \* elif
       <<"e", "l", "s", "e">>,                                    \* else
       <<"e", "x", "c", "e", "p", "t">>,                          \* except
       <<"F", "a", "l", "s", "e">>,                               \* False
       <<"f", "i", "n", "a", "l", "l", "y">>,                     \* finally
       <<"f", "o", "r">>,                                         \* for
       <<"f", "r", "o", "m">>,                                    \* from
       <<"g", "l", "o", "b", "a", "l">>,                          \* global
       <<"i", "f">>,                                              \* if
       <<"i", "m", "p", "o", "r", "t">>,                          \* import
       <<"i", "n">>,                                              \* in
       <<"i", "s">>,                                              \* is
       <<"l", "a", "m", "b", "d", "a">>,                          \* lambda
       <<"N", "o", "n", "e">>,                                    \* None
       <<"n", "o", "n", "l", "o", "c", "a", "l">>,                \* nonlocal
       <<"n", "o", "t">>,                                         \* not
       <<"o", "r">>,                                              \* or
       <<"p", "a", "s", "s">>,                                    \* pass
       <<"r", "a", "i", "s", "e">>,                               \* raise
       <<"r", "e", "t", "u", "r", "n">>,                          \* return
       <<"T", "r", "u", "e">>,                                    \* True
       <<"t", "r", "y">>,                                         \* try
       <<"w", "h", "i", "l", "e">>,                               \* while
       <<"w", "i", "t", "h">>,                                    \* with
       <<"y", "i", "e", "l", "d">>,                               \* yield
       <<"h", "o", "u">>,                                         \* hou
       <<"n", "o", "d", "e">>,                                    \* node
       <<"p", "a", "r", "m">>,                                    \* parm
       <<"g", "e", "o", "m", "e", "t", "r", "y">>,                \* geometry
       <<"o", "b", "j">>,                                         \* obj
       <<"s", "o", "p">>                                          \* sop
    >>

NoKey == [kind |-> "none", raised |-> FALSE]

StartsWith(w, prefix) ==
    Len(prefix) <= Len(w) /\ SubSeq(w, 1, Len(prefix)) = prefix

\* QCompleter's completion model: the entries of the model that start with the
\* completion prefix (case sensitive, the default).
completionModel(model, prefix) == {w \in Range(model) : StartsWith(w, prefix)}

\* QCharAttributes.whiteSpace and QTextEngine::atWordSeparator (the grave
\* accent, also a separator, is not written here: no text of the model has it)
whiteSpace(ch) == ch \in {" ", "\t"}
atWordSeparator(ch) ==
    ch \in {".", ",", "?", "!", "@", "#", "$", ":", ";", "-", "<", ">", "[", "]",
            "(", ")", "{", "}", "=", "/", "+", "%", "&", "^", "*", "'", "\"",
            "~", "|", "\\"}

Max(S) == CHOOSE x \in S : \A y \in S : y <= x
Min(S) == CHOOSE x \in S : \A y \in S : x <= y

\* Start and end position of the block (line) that holds position c.
blockStart(t, c) == Max({k \in 0 .. c : k = 0 \/ t[k] = "\n"})
blockEnd(t, c) == Min({k \in c .. Len(t) : k = Len(t) \/ t[k + 1] = "\n"})

\* QTextLayout::previousCursorPosition(oldPos, SkipWords) within the block
\* starting at bs: skip white space, then a run of separators or a word.
RECURSIVE skipSpaceLeft(_, _, _)
skipSpaceLeft(t, bs, p) ==
    IF p > bs /\ whiteSpace(t[p]) THEN skipSpaceLeft(t, bs, p - 1) ELSE p

RECURSIVE skipSepLeft(_, _, _)
skipSepLeft(t, bs, p) ==
    IF p > bs /\ atWordSeparator(t[p]) THEN skipSepLeft(t, bs, p - 1) ELSE p

RECURSIVE skipWordLeft(_, _, _)
skipWordLeft(t, bs, p) ==
    IF p > bs /\ ~whiteSpace(t[p]) /\ ~atWordSeparator(t[p])
    THEN skipWordLeft(t, bs, p - 1) ELSE p

previousCursorPosition(t, bs, oldPos) ==
    LET p == skipSpaceLeft(t, bs, oldPos)
    IN  IF p > bs /\ atWordSeparator(t[p]) THEN skipSepLeft(t, bs, p)
        ELSE skipWordLeft(t, bs, p)

\* QTextCursor.movePosition(StartOfWord)
StartOfWord(t, c) ==
    LET bs == blockStart(t, c)
        be == blockEnd(t, c)
    IN  IF c = bs THEN c
        ELSE IF c = be /\ (whiteSpace(t[c]) \/ atWordSeparator(t[c])) THEN c
        ELSE previousCursorPosition(t, bs, IF c < be THEN c + 1 ELSE c)

RECURSIVE skipSepRight(_, _, _)
skipSepRight(t, be, p) ==
    IF p < be /\ atWordSeparator(t[p + 1]) THEN skipSepRight(t, be, p + 1) ELSE p

RECURSIVE skipWordRight(_, _, _)
skipWordRight(t, be, p) ==
    IF p < be /\ ~whiteSpace(t[p + 1]) /\ ~atWordSeparator(t[p + 1])
    THEN skipWordRight(t, be, p + 1) ELSE p

\* QTextCursor.movePosition(EndOfWord, KeepAnchor)
EndOfWord(t, c) ==
    LET be == blockEnd(t, c)
    IN  IF c >= be THEN c
        ELSE IF atWordSeparator(t[c + 1]) THEN skipSepRight(t, be, c + 1)
        ELSE skipWordRight(t, be, c)

\* The word run that ends at the cursor: a variant that does not look right.
textLeftOfCursor(t, c) ==
    SubSeq(t, skipWordLeft(t, blockStart(t, c), c) + 1, c)

\* tc.select(WordUnderCursor); return tc.selectedText()
textUnderCursor(t, c) ==
    SubSeq(t, StartOfWord(t, c) + 1, EndOfWord(t, StartOfWord(t, c)))

(***************************************************************************)
(* insertCompletion                                                        *)
(***************************************************************************)
\* tc.movePosition(Left, KeepAnchor, n): the anchor stays, the position moves
\* left n characters or to the start of the document.
selectionStart(c, n) == IF c - n < 0 THEN 0 ELSE c - n

\* A variant that inserts at the cursor without selecting anything.
insertAtCursor(t, c, prefix, completion) ==
    [text |-> SubSeq(t, 1, c) \o completion \o SubSeq(t, c + 1, Len(t)),
     cursor |-> c + Len(completion)]

\* tc.insertText(completion) replaces the selection; the cursor ends after it.
insertCompletion(t, c, prefix, completion) ==
    [text |-> SubSeq(t, 1, selectionStart(c, Len(prefix))) \o completion
              \o SubSeq(t, c + 1, Len(t)),
     cursor |-> selectionStart(c, Len(prefix)) + Len(completion)]

(***************************************************************************)
(* keyPressEvent                                                           *)
(***************************************************************************)
\* The leading blanks of a block: the auto-indent loop over blockText.
RECURSIVE indentOf(_, _, _)
indentOf(t, p, be) ==
    IF p < be /\ t[p + 1] \in {" ", "\t"} THEN <<t[p + 1]>> \o indentOf(t, p + 1, be)
    ELSE <<>>

\* super().keyPressEvent(event) for the keys of the model, followed by the
\* auto-indent of Return: the buffer and cursor it leaves.
typed(t, c, k) ==
    CASE k.kind = "char" ->
            [text |-> SubSeq(t, 1, c) \o <<k.ch>> \o SubSeq(t, c + 1, Len(t)),
             cursor |-> c + 1]
      [] k.kind = "left" -> [text |-> t, cursor |-> IF c > 0 THEN c - 1 ELSE c]
      [] k.kind = "right" -> [text |-> t, cursor |-> IF c < Len(t) THEN c + 1 ELSE c]
      [] k.kind = "backspace" ->
            IF c > 0 THEN [text |-> SubSeq(t, 1, c - 1) \o SubSeq(t, c + 1, Len(t)),
                           cursor |-> c - 1]
            ELSE [text |-> t, cursor |-> c]
      [] k.kind = "return" ->
            LET indent == indentOf(t, blockStart(t, c), c)
            IN  [text |-> SubSeq(t, 1, c) \o <<"\n">> \o indent \o SubSeq(t, c + 1, Len(t)),
                 cursor |-> c + 1 + Len(indent)]

(***************************************************************************)
(* The resolver of the specification, used to state the completion claims  *)
(***************************************************************************)
\* Word characters: letters, digits and the underscore.
wordChar(ch) ==
    ch \in {"a", "b", "c", "d", "e", "f", "g", "h", "i", "j", "k", "l", "m", "n",
            "o", "p", "q", "r", "s", "t", "u", "v", "w", "x", "y", "z",
            "F", "N", "T", "_", "0", "1", "2", "3", "4", "5", "6", "7", "8", "9"}

\* The start (0-based) of the run of word characters that ends at the end of s.
RECURSIVE wordRunStart(_, _)
wordRunStart(s, p) == IF p > 0 /\ wordChar(s[p]) THEN wordRunStart(s, p - 1) ELSE p

\* The contiguous run of word characters at the end of s.
trailingWord(s) == SubSeq(s, wordRunStart(s, Len(s)) + 1, Len(s))

RECURSIVE trimLeft(_)
trimLeft(s) == IF s # <<>> /\ s[1] \in {" ", "\t"} THEN trimLeft(Tail(s)) ELSE s

RECURSIVE trimRight(_)
trimRight(s) ==
    IF s # <<>> /\ s[Len(s)] \in {" ", "\t"} THEN trimRight(SubSeq(s, 1, Len(s) - 1)) ELSE s

trim(s) == trimRight(trimLeft(s))

\* s ends in <expr>.<partial-identifier> with a non-empty expr.
dotted(s) ==
    /\ wordRunStart(s, Len(s)) >= 1
    /\ s[wordRunStart(s, Len(s))] = "."
    /\ trim(SubSeq(s, 1, wordRunStart(s, Len(s)) - 1)) # <<>>

\* The expr of a dotted s: the text before the final dot, trimmed.
exprOf(s) == trim(SubSeq(s, 1, wordRunStart(s, Len(s)) - 1))

\* The host namespace of the specification's example: evaluating "os" gives
\* an object with the attributes path, getcwd and _internal; every other
\* expression of the model fails to evaluate.
attrs_os ==
    << <<"p", "a", "t", "h">>, <<"g", "e", "t", "c", "w", "d">>,
       <<"_", "i", "n", "t", "e", "r", "n", "a", "l">> >>

evaluates(expr) == expr = <<"o", "s">>

publicAttrs(expr) == {a \in Range(attrs_os) : a[1] # "_"}

\* A resolver that drops the static list when the expression fails.
candidatesDynamic(model, before) ==
    IF dotted(before)
    THEN IF evaluates(exprOf(before)) THEN SubSeq(attrs_os, 1, 2) ELSE <<>>
    ELSE model

\* The candidate list the completer completes from when a key was handled
\* with line text `before` left of the cursor: the completer keeps the list it
\* was constructed with, keyPressEvent never replaces it.
candidatesFor(model, before) == model

EditorChars == {"o", "s", " ", "."}

Keys ==
    {[kind |-> "char", ch |-> ch] : ch \in EditorChars}
    \cup {[kind |-> k, ch |-> ""] : k \in {"left", "right", "backspace", "return"}}

\* The text of the current line left of the cursor.
lineBefore(t, c) == SubSeq(t, blockStart(t, c) + 1, c)

\* keyPressEvent for a key that reaches super().keyPressEvent: the key edits
\* the buffer, Return auto-indents, then the completion prefix is recomputed
\* and the popup shown or hidden.  (Ctrl+Return only emits run_requested and
\* leaves the editor as it is.)
KeyPress ==
    \E k \in Keys :
        LET e == typed(text, cursor, k)
            completionPrefix == textUnderCursor(e.text, e.cursor)
        IN  /\ ~(popupVisible /\ k.kind = "return")
            /\ Len(e.text) <= MaxBuf
            /\ text' = e.text
            /\ cursor' = e.cursor
            /\ extraSel' = highlightCurrentLine(e.text, e.cursor)
            /\ completerModel' = candidatesFor(completerModel, lineBefore(e.text, e.cursor))
            /\ IF Len(completionPrefix) >= 1
               THEN /\ completion_prefix' = completionPrefix
                    /\ popupVisible' = (completionModel(completerModel', completionPrefix) # {})
               ELSE /\ completion_prefix' = completion_prefix
                    /\ popupVisible' = FALSE
            /\ key' = [kind |-> "key", raised |-> FALSE]
            /\ UNCHANGED <<call, ifVars, panelVars, runVars>>

\* Return, Enter, Tab or Escape while the popup is visible and no entry is
\* chosen: keyPressEvent ignores the event and the completer hides the popup.
PopupDismiss ==
    /\ popupVisible
    /\ popupVisible' = FALSE
    /\ key' = [kind |-> "dismiss", raised |-> FALSE]
    /\ UNCHANGED <<text, cursor, extraSel, call, completion_prefix, completerModel,
                   ifVars, panelVars, runVars>>

\* The user picks an entry of the popup: activated -> insertCompletion.
InsertCompletion ==
    \E completion \in completionModel(completerModel, completion_prefix) :
        LET r == insertCompletion(text, cursor, completion_prefix, completion)
        IN  /\ popupVisible
            /\ Len(text) <= MaxBuf
            /\ text' = r.text
            /\ cursor' = r.cursor
            /\ extraSel' = highlightCurrentLine(r.text, r.cursor)
            /\ popupVisible' = FALSE
            /\ key' = [kind |-> "accept", raised |-> FALSE]
            /\ UNCHANGED <<call, completion_prefix, completerModel, ifVars, panelVars, runVars>>

InitEditor ==
    /\ text = <<>>
    /\ cursor = 0
    /\ extraSel = highlightCurrentLine(<<>>, 0)
    /\ call = NoCall
    /\ completion_prefix = <<>>
    /\ completerModel = keywords
    /\ popupVisible = FALSE
    /\ key = NoKey
    /\ NoPanel
    /\ RunIdle

NextEditor == KeyPress \/ PopupDismiss \/ InsertCompletion

SpecEditor == InitEditor /\ [][NextEditor]_vars

(***************************************************************************)
(* Panel operations                                                        *)
(***************************************************************************)
\* The panels that were constructed and not disposed.
live == (1 .. created) \ disposed

\* A createInterface that constructs a panel on every call.
createAlways(inst, n) == [instance |-> n + 1, created |-> n + 1]

\* createInterface: construct a panel only if _instance is None; return it.
createInterface(inst, n) ==
    IF inst = 0 THEN [instance |-> n + 1, created |-> n + 1]
    ELSE [instance |-> inst, created |-> n]

\* tab_widget.currentWidget(): the current editor, or None (id 0) without tabs.
NoEditor == [id |-> 0, text |-> "", title |-> "", files |-> {}]
currentEditor(tb, idx) == IF idx >= 0 /\ idx < Len(tb) THEN tb[idx + 1] ELSE NoEditor

\* dict.get(key, "")
historyGet(h, f) == IF f \in DOMAIN h THEN h[f] ELSE ""

\* h[f] = t
historySet(h, f, t) == [x \in DOMAIN h \cup {f} |-> IF x = f THEN t ELSE h[x]]

\* OutputConsole.write(text)
consoleWrite(c, line) == Append(c, line)

\* QTabWidget.removeTab(index): the tabs left and the new current index (the
\* right neighbour of a removed current tab becomes current, else the left).
removeTab(tb, idx, index) ==
    [tabs |-> SubSeq(tb, 1, index) \o SubSeq(tb, index + 2, Len(tb)),
     currentIndex |-> IF index < idx THEN idx - 1
                      ELSE IF index = idx /\ index = Len(tb) - 1 THEN idx - 1
                      ELSE idx]

\* An autosave that writes on every tick, without the comparison.
autosaveNeeded_always(h, f, current_text) == TRUE

\* autosave: `self.file_history.get(self.current_file, "") != current_text`
autosaveNeeded(h, f, current_text) == historyGet(h, f) # current_text

\* VSCodeLikePanel.__init__: one untitled tab, no file, empty console.
PanelConstructed ==
    /\ tabs' = <<[id |-> 1, text |-> "", title |-> "Untitled", files |-> {}]>>
    /\ currentIndex' = 0
    /\ editors' = 1
    /\ current_file' = NoFile
    /\ recent_files' = <<>>
    /\ file_history' = <<>>
    /\ output_console' = <<>>
    /\ op' = NoOp
    /\ dialog' = "none"

\* The panel variables describe the panel constructed last, for as long as
\* that object exists: deleteLater() only posts the deletion, the object and
\* its autosave timer stay until the event loop deletes them.
PanelExists == created > 0 /\ created \notin deleted

\* What the autosave timer of a panel reads, kept for a panel that awaits
\* deletion when a newer panel takes over the panel variables: current_file,
\* whether there is a current editor, its text, and
\* file_history.get(current_file, "").  The console of such a panel, which
\* nothing reads any more, is not kept.
olderRecord ==
    [id |-> created, current_file |-> current_file,
     hasEditor |-> currentEditor(tabs, currentIndex).id # 0,
     current_text |-> currentEditor(tabs, currentIndex).text,
     saved |-> historyGet(file_history, current_file)]

\* createInterface, called by the host from its event loop.  A panel that
\* still awaits deletion stays beside the new one.
CreateInterface ==
    LET r == createInterface(instance, created)
    IN  /\ dialog = "none"
        /\ r.created <= MaxPanels
        /\ instance' = r.instance
        /\ created' = r.created
        /\ iface' = [name |-> "create", ret |-> r.instance,
                     prev |-> IF iface.name = "none" THEN 0
                              ELSE IF iface.name = "create" THEN iface.ret
                              ELSE iface.prev,
                     destroyed |-> iface.name = "destroy"]
        /\ IF r.created # created
           THEN /\ PanelConstructed
                /\ older' = IF PanelExists THEN older \cup {olderRecord} ELSE older
           ELSE UNCHANGED <<tabs, currentIndex, editors, current_file, recent_files,
                            file_history, output_console, op, dialog, older>>
        /\ UNCHANGED <<disposed, deleted, disk, edAll, runVars>>

\* destroyInterface: deleteLater() on the live panel, then _instance = None.
\* Nothing of the panel changes here: the deletion is only posted.
DestroyInterface ==
    /\ dialog = "none"
    /\ iface' = [name |-> "destroy", ret |-> 0,
                 prev |-> IF iface.name = "create" THEN iface.ret ELSE iface.prev,
                 destroyed |-> TRUE]
    /\ IF instance # 0
       THEN /\ disposed' = disposed \cup {instance}
            /\ instance' = 0
       ELSE UNCHANGED <<disposed, instance>>
    /\ UNCHANGED <<created, deleted, older, panelVars, edAll, runVars>>

\* Control is back in the event loop and it deletes a panel that deleteLater()
\* was called on: its widgets and its autosave timer go with it.  The loop of
\* a modal dialog does not do this.
DeferredDelete ==
    \E p \in disposed \ deleted :
        /\ dialog = "none"
        /\ deleted' = deleted \cup {p}
        /\ IF p = created
           THEN /\ tabs' = <<>>
                /\ currentIndex' = -1
                /\ editors' = 0
                /\ current_file' = NoFile
                /\ recent_files' = <<>>
                /\ file_history' = <<>>
                /\ output_console' = <<>>
                /\ op' = NoOp
                /\ UNCHANGED older
           ELSE /\ older' = {z \in older : z.id # p}
                /\ UNCHANGED <<tabs, currentIndex, editors, current_file, recent_files,
                               file_history, output_console, op>>
        /\ UNCHANGED <<instance, created, disposed, iface, disk, dialog, edAll, runVars>>

\* newTab: a new editor in a new tab, which becomes current.
NewTab ==
    /\ instance # 0
    /\ dialog = "none"
    /\ editors < MaxEditors
    /\ tabs' = Append(tabs, [id |-> editors + 1, text |-> "", title |-> "Untitled", files |-> {}])
    /\ currentIndex' = Len(tabs)
    /\ editors' = editors + 1
    /\ op' = [name |-> "newTab", wrote |-> NoFile, raised |-> FALSE]
    /\ UNCHANGED <<current_file, recent_files, file_history, disk, output_console,
                   dialog, ifVars, edAll, runVars>>

\* closeTab(index) from the close button of an existing tab.
CloseTab ==
    \E index \in 0 .. Len(tabs) - 1 :
        /\ instance # 0
        /\ dialog = "none"
        /\ tabs' = removeTab(tabs, currentIndex, index).tabs
        /\ currentIndex' = removeTab(tabs, currentIndex, index).currentIndex
        /\ op' = [name |-> "closeTab", wrote |-> NoFile, raised |-> FALSE]
        /\ UNCHANGED <<editors, current_file, recent_files, file_history, disk,
                       output_console, dialog, ifVars, edAll, runVars>>

\* The user selects another tab.
SwitchTab ==
    \E index \in 0 .. Len(tabs) - 1 :
        /\ instance # 0
        /\ dialog = "none"
        /\ index # currentIndex
        /\ currentIndex' = index
        /\ op' = [name |-> "switchTab", wrote |-> NoFile, raised |-> FALSE]
        /\ UNCHANGED <<tabs, editors, current_file, recent_files, file_history, disk,
                       output_console, dialog, ifVars, edAll, runVars>>

\* The user edits the text of the current editor.
Edit ==
    \E t \in Texts :
        /\ instance # 0
        /\ dialog = "none"
        /\ currentIndex >= 0
        /\ t # currentEditor(tabs, currentIndex).text
        /\ tabs' = [tabs EXCEPT ![currentIndex + 1].text = t]
        /\ op' = [name |-> "edit", wrote |-> NoFile, raised |-> FALSE]
        /\ UNCHANGED <<currentIndex, editors, current_file, recent_files, file_history,
                       disk, output_console, dialog, ifVars, edAll, runVars>>

\* What the Find line can hold: nothing, or the text "a".
FindStrings == {"", "a"}

\* content.replace(find_str, replace_str) for a non-empty find_str, on the
\* texts of the model, which hold find_str only as the whole text.
replace(content, find_str, replace_str) ==
    IF content = find_str THEN replace_str ELSE content

\* replace_text, the Replace button: with a non-empty Find line every
\* occurrence in the current editor is replaced and the console is told so,
\* found or not.  Without a tab currentEditor() is None and toPlainText raises.
ReplaceText ==
    \E find_str \in FindStrings, replace_str \in Texts :
        /\ instance # 0
        /\ dialog = "none"
        /\ IF find_str = ""
           THEN /\ op' = [name |-> "replace_text", wrote |-> NoFile, raised |-> FALSE]
                /\ UNCHANGED <<tabs, output_console>>
           ELSE IF currentIndex < 0
           THEN /\ op' = [name |-> "replace_text", wrote |-> NoFile, raised |-> TRUE]
                /\ UNCHANGED <<tabs, output_console>>
           ELSE /\ Len(output_console) < MaxConsole
                /\ tabs' = [tabs EXCEPT
                              ![currentIndex + 1].text = replace(@, find_str, replace_str)]
                /\ output_console' = consoleWrite(output_console,
                                                  <<"Replaced", find_str, replace_str>>)
                /\ op' = [name |-> "replace_text", wrote |-> NoFile, raised |-> FALSE]
        /\ UNCHANGED <<currentIndex, editors, current_file, recent_files, file_history,
                       disk, dialog, ifVars, edAll, runVars>>

\* open_file with the dialog answering filename (a cancelled dialog changes
\* nothing; the handler reads nothing before the dialog, so a tick inside the
\* dialog is a tick before this step).  Without a tab currentEditor() is None
\* and setPlainText raises.
OpenFile ==
    \E filename \in Files :
        /\ instance # 0
        /\ dialog = "none"
        /\ IF currentIndex < 0
           THEN /\ op' = [name |-> "open_file", wrote |-> NoFile, raised |-> TRUE]
                /\ UNCHANGED <<tabs, current_file, recent_files, file_history,
                               output_console>>
           ELSE /\ Len(output_console) < MaxConsole
                /\ tabs' = [tabs EXCEPT ![currentIndex + 1].text = disk[filename],
                                        ![currentIndex + 1].title = filename,
                                        ![currentIndex + 1].files = @ \cup {filename}]
                /\ current_file' = filename
                /\ output_console' = consoleWrite(output_console, <<"Opened", filename>>)
                /\ recent_files' = IF filename \in Range(recent_files) THEN recent_files
                                   ELSE Append(recent_files, filename)
                /\ file_history' = historySet(file_history, filename, disk[filename])
                /\ op' = [name |-> "open_file", wrote |-> NoFile, raised |-> FALSE]
        /\ UNCHANGED <<currentIndex, editors, disk, dialog, ifVars, edAll, runVars>>

\* save_file with no current file, up to the call of getSaveFileName: the
\* modal dialog is open.  Its event loop runs timer callbacks; the panel takes
\* no input until the dialog is answered.
SaveFileDialog ==
    /\ instance # 0
    /\ dialog = "none"
    /\ current_file = NoFile
    /\ dialog' = "save"
    /\ op' = [name |-> "save_dialog", wrote |-> NoFile, raised |-> FALSE]
    /\ UNCHANGED <<tabs, currentIndex, editors, current_file, recent_files, file_history,
                   disk, output_console, ifVars, edAll, runVars>>

\* save_file with a current file, and the rest of save_file once the dialog
\* has answered filename, NoFile when cancelled.  open(..., 'w') truncates the
\* file before the text is read from the current editor, which raises when
\* there is no tab.
SaveFile ==
    \E filename \in Files \cup {NoFile} :
        LET asked == dialog = "save"
            cf == IF asked /\ filename # NoFile THEN filename ELSE current_file
        IN  /\ instance # 0
            /\ asked \/ (current_file # NoFile /\ filename = NoFile)
            /\ dialog' = "none"
            /\ current_file' = cf
            /\ IF cf = NoFile
               THEN /\ op' = [name |-> "save_file", wrote |-> NoFile, raised |-> FALSE]
                    /\ UNCHANGED <<tabs, disk, output_console, file_history>>
               ELSE IF currentIndex < 0
               THEN /\ disk' = [disk EXCEPT ![cf] = ""]
                    /\ op' = [name |-> "save_file", wrote |-> cf, raised |-> TRUE]
                    /\ UNCHANGED <<tabs, output_console, file_history>>
               ELSE /\ Len(output_console) < MaxConsole
                    /\ tabs' = IF asked
                               THEN [tabs EXCEPT ![currentIndex + 1].title = cf,
                                                 ![currentIndex + 1].files = @ \cup {cf}]
                               ELSE tabs
                    /\ disk' = [disk EXCEPT ![cf] = currentEditor(tabs, currentIndex).text]
                    /\ output_console' = consoleWrite(output_console, <<"Saved", cf>>)
                    /\ file_history' = historySet(file_history, cf,
                                                  currentEditor(tabs, currentIndex).text)
                    /\ op' = [name |-> "save_file", wrote |-> cf, raised |-> FALSE]
            /\ UNCHANGED <<currentIndex, editors, recent_files, ifVars, edAll, runVars>>

\* The autosave timer of the panel fires: it does for as long as the panel
\* object exists, also inside a modal dialog and after deleteLater().
Autosave ==
    /\ PanelExists
    /\ IF current_file = NoFile
       THEN /\ op' = [name |-> "autosave", wrote |-> NoFile, raised |-> FALSE]
            /\ UNCHANGED <<disk, file_history, output_console>>
       ELSE IF currentIndex < 0
       THEN /\ op' = [name |-> "autosave", wrote |-> NoFile, raised |-> TRUE]
            /\ UNCHANGED <<disk, file_history, output_console>>
       ELSE LET current_text == currentEditor(tabs, currentIndex).text
            IN  IF autosaveNeeded(file_history, current_file, current_text)
                THEN /\ Len(output_console) < MaxConsole
                     /\ disk' = [disk EXCEPT ![current_file] = current_text]
                     /\ file_history' = historySet(file_history, current_file, current_text)
                     /\ output_console' = consoleWrite(output_console,
                                                       <<"Autosaved", current_file>>)
                     /\ op' = [name |-> "autosave", wrote |-> current_file, raised |-> FALSE]
                ELSE /\ op' = [name |-> "autosave", wrote |-> NoFile, raised |-> FALSE]
                     /\ UNCHANGED <<disk, file_history, output_console>>
    /\ UNCHANGED <<tabs, currentIndex, editors, current_file, recent_files, dialog,
                   ifVars, edAll, runVars>>

\* The autosave timer of a panel that awaits deletion beside a newer one:
\* the same autosave, on what is kept of that panel.
AutosaveOlder ==
    \E z \in older :
        /\ IF z.current_file = NoFile
           THEN /\ op' = [name |-> "autosave_older", wrote |-> NoFile, raised |-> FALSE]
                /\ UNCHANGED <<disk, older>>
           ELSE IF ~z.hasEditor
           THEN /\ op' = [name |-> "autosave_older", wrote |-> NoFile, raised |-> TRUE]
                /\ UNCHANGED <<disk, older>>
           ELSE IF z.saved # z.current_text
           THEN /\ disk' = [disk EXCEPT ![z.current_file] = z.current_text]
                /\ older' = (older \ {z}) \cup {[z EXCEPT !.saved = z.current_text]}
                /\ op' = [name |-> "autosave_older", wrote |-> z.current_file,
                          raised |-> FALSE]
           ELSE /\ op' = [name |-> "autosave_older", wrote |-> NoFile, raised |-> FALSE]
                /\ UNCHANGED <<disk, older>>
        /\ UNCHANGED <<tabs, currentIndex, editors, current_file, recent_files,
                       file_history, output_console, dialog, instance, created,
                       disposed, deleted, iface, edAll, runVars>>

\* clear_output
ClearOutput ==
    /\ instance # 0
    /\ dialog = "none"
    /\ output_console # <<>>
    /\ output_console' = <<>>
    /\ op' = [name |-> "clear_output", wrote |-> NoFile, raised |-> FALSE]
    /\ UNCHANGED <<tabs, currentIndex, editors, current_file, recent_files, file_history,
                   disk, dialog, ifVars, edAll, runVars>>

\* The editor variables of a panel specification: one idle editor.
EditorIdle ==
    /\ text = <<>>
    /\ cursor = 0
    /\ extraSel = highlightCurrentLine(<<>>, 0)
    /\ call = NoCall
    /\ completion_prefix = <<>>
    /\ completerModel = keywords
    /\ popupVisible = FALSE
    /\ key = NoKey

\* SpecIface: the host loads the module and calls the two lifecycle hooks in
\* any order; the user opens files and edits in the live panel, the event
\* loop deletes the panels posted for deletion, and the timers tick.
InitIface == EditorIdle /\ NoPanel /\ RunIdle

NextIface ==
    \/ CreateInterface
    \/ DestroyInterface
    \/ DeferredDelete
    \/ Edit
    \/ OpenFile
    \/ ClearOutput
    \/ Autosave
    \/ AutosaveOlder

SpecIface == InitIface /\ [][NextIface]_vars

\* SpecPanel: one panel, after the host's first createInterface().
InitPanel ==
    /\ EditorIdle
    /\ instance = 1
    /\ created = 1
    /\ disposed = {}
    /\ deleted = {}
    /\ older = {}
    /\ iface = [name |-> "create", ret |-> 1, prev |-> 0, destroyed |-> FALSE]
    /\ tabs = <<[id |-> 1, text |-> "", title |-> "Untitled", files |-> {}]>>
    /\ currentIndex = 0
    /\ editors = 1
    /\ current_file = NoFile
    /\ recent_files = <<>>
    /\ file_history = <<>>
    /\ disk = InitDisk
    /\ output_console = <<>>
    /\ op = NoOp
    /\ dialog = "none"
    /\ RunIdle

NextPanel ==
    \/ NewTab
    \/ CloseTab
    \/ SwitchTab
    \/ Edit
    \/ ReplaceText
    \/ OpenFile
    \/ SaveFileDialog
    \/ SaveFile
    \/ Autosave
    \/ ClearOutput

SpecPanel == InitPanel /\ [][NextPanel]_vars

(***************************************************************************)
(* run_code                                                                *)
(***************************************************************************)
\* The editor texts of SpecRun, by what Python does with them:
\*   expr    eval() can compile the text as an expression
\*   stmts   compile(text, '<string>', 'exec') succeeds
\*   prints  running it prints a line before it ends
\*   ends    how running it ends: "value" (an expression value other than
\*           None), "none", or the exception it raises
Program(t) ==
    CASE t = ""                   -> [expr |-> FALSE, stmts |-> TRUE,  prints |-> FALSE, ends |-> "none"]
      [] t = "1+1"                -> [expr |-> TRUE,  stmts |-> TRUE,  prints |-> FALSE, ends |-> "value"]
      [] t = "print(1)"           -> [expr |-> TRUE,  stmts |-> TRUE,  prints |-> TRUE,  ends |-> "none"]
      [] t = "x = 1"              -> [expr |-> FALSE, stmts |-> TRUE,  prints |-> FALSE, ends |-> "none"]
      [] t = "1/0"                -> [expr |-> TRUE,  stmts |-> TRUE,  prints |-> FALSE, ends |-> "Exception"]
      [] t = "raise ValueError()" -> [expr |-> FALSE, stmts |-> TRUE,  prints |-> FALSE, ends |-> "Exception"]
      [] t = "print(1) or len(5)" -> [expr |-> TRUE,  stmts |-> TRUE,  prints |-> TRUE,  ends |-> "TypeError"]
      [] t = "eval('(')"          -> [expr |-> TRUE,  stmts |-> TRUE,  prints |-> FALSE, ends |-> "SyntaxError"]
      [] t = "sys.exit()"         -> [expr |-> TRUE,  stmts |-> TRUE,  prints |-> FALSE, ends |-> "SystemExit"]
      [] t = "raise SystemExit"   -> [expr |-> FALSE, stmts |-> TRUE,  prints |-> FALSE, ends |-> "SystemExit"]
      [] t = "def ("              -> [expr |-> FALSE, stmts |-> FALSE, prints |-> FALSE, ends |-> "none"]

ProgramTexts ==
    {"", "1+1", "print(1)", "x = 1", "1/0", "raise ValueError()", "print(1) or len(5)",
     "eval('(')", "sys.exit()", "raise SystemExit", "def ("}

\* print(x) through MultiWriter: write(str(x)) and write("\n"), each a console line.
printed(c) == consoleWrite(consoleWrite(c, "text"), "\n")

\* The console after the user's code ran once.
userOutput(c, prog) == IF prog.prints THEN printed(c) ELSE c

\* except (SyntaxError, TypeError):
\*     interpreter.runcode(compile(code_text, '<string>', 'exec'))
\* compile may raise SyntaxError, which the outer `except Exception` reports;
\* runcode re-raises SystemExit and prints any other exception with
\* showtraceback(), to sys.stderr, which is the console writer.
execPhase(c, prog, evalRuns) ==
    IF ~prog.stmts
    THEN [console |-> consoleWrite(c, "[ERROR]"), evalRuns |-> evalRuns, execRuns |-> 0,
          userRaised |-> "SyntaxError", propagated |-> "none"]
    ELSE IF prog.ends \in {"value", "none"}
    THEN [console |-> userOutput(c, prog), evalRuns |-> evalRuns, execRuns |-> 1,
          userRaised |-> "none", propagated |-> "none"]
    ELSE IF prog.ends = "SystemExit"
    THEN [console |-> userOutput(c, prog), evalRuns |-> evalRuns, execRuns |-> 1,
          userRaised |-> "SystemExit", propagated |-> "SystemExit"]
    ELSE [console |-> consoleWrite(userOutput(c, prog), "traceback"),
          evalRuns |-> evalRuns, execRuns |-> 1,
          userRaised |-> prog.ends, propagated |-> "none"]

\* The try block of run_code for an editor with text t, on a cleared console.
tryBlock(t) ==
    LET prog == Program(t)
    IN  IF ~prog.expr THEN execPhase(<<>>, prog, 0)          \* eval: SyntaxError
        ELSE IF prog.ends = "value"
        THEN [console |-> printed(userOutput(<<>>, prog)), evalRuns |-> 1, execRuns |-> 0,
              userRaised |-> "none", propagated |-> "none"]
        ELSE IF prog.ends = "none"
        THEN [console |-> userOutput(<<>>, prog), evalRuns |-> 1, execRuns |-> 0,
              userRaised |-> "none", propagated |-> "none"]
        ELSE IF prog.ends \in {"SyntaxError", "TypeError"}
        THEN execPhase(userOutput(<<>>, prog), prog, 1)
        ELSE IF prog.ends = "SystemExit"
        THEN [console |-> userOutput(<<>>, prog), evalRuns |-> 1, execRuns |-> 0,
              userRaised |-> "SystemExit", propagated |-> "SystemExit"]
        ELSE [console |-> consoleWrite(userOutput(<<>>, prog), "[ERROR]"),
              evalRuns |-> 1, execRuns |-> 0,
              userRaised |-> prog.ends, propagated |-> "none"]

\* currentEditor() is None: .toPlainText() raises AttributeError, reported by
\* the outer `except Exception`.
noEditorRun ==
    [console |-> <<"[ERROR]">>, evalRuns |-> 0, execRuns |-> 0,
     userRaised |-> "none", propagated |-> "none"]

\* A run_code that restores the streams and writes the time line after the
\* try statement instead of in `finally`: an exception that leaves skips both.
run_code_noFinally(editor, old_stdout, old_stderr) ==
    LET r == IF editor.id = 0 THEN noEditorRun ELSE tryBlock(editor.text)
        left == r.propagated # "none"
    IN  [console |-> IF left THEN r.console
                     ELSE consoleWrite(r.console, "[INFO] Execution time"),
         sys_stdout |-> IF left THEN "multi_stdout" ELSE old_stdout,
         sys_stderr |-> IF left THEN "multi_stdout" ELSE old_stderr,
         run |-> [evalRuns |-> r.evalRuns, execRuns |-> r.execRuns,
                  userRaised |-> r.userRaised, propagated |-> r.propagated,
                  during |-> <<"multi_stdout", "multi_stdout">>, made |-> TRUE]]

\* run_code: clear the console, point both streams at one MultiWriter, run the
\* try block, and in `finally` restore the streams and write the time line.
run_code(editor, old_stdout, old_stderr) ==
    LET r == IF editor.id = 0 THEN noEditorRun ELSE tryBlock(editor.text)
    IN  [console |-> consoleWrite(r.console, "[INFO] Execution time"),
         sys_stdout |-> old_stdout,
         sys_stderr |-> old_stderr,
         run |-> [evalRuns |-> r.evalRuns, execRuns |-> r.execRuns,
                  userRaised |-> r.userRaised, propagated |-> r.propagated,
                  during |-> <<"multi_stdout", "multi_stdout">>, made |-> TRUE]]

\* The Run button or Ctrl+Enter in an editor.
RunCode ==
    LET r == run_code(currentEditor(tabs, currentIndex), sys_stdout, sys_stderr)
    IN  /\ instance # 0
        /\ dialog = "none"
        /\ output_console' = r.console
        /\ sys_stdout' = r.sys_stdout
        /\ sys_stderr' = r.sys_stderr
        /\ run' = r.run
        /\ op' = [name |-> "run_code", wrote |-> NoFile,
                  raised |-> r.run.propagated # "none"]
        /\ UNCHANGED <<tabs, currentIndex, editors, current_file, recent_files,
                       file_history, disk, dialog, ifVars, edAll>>

\* The user replaces the text of the current editor by one of the programs.
EditProgram ==
    \E t \in ProgramTexts :
        /\ instance # 0
        /\ currentIndex >= 0
        /\ t # currentEditor(tabs, currentIndex).text
        /\ tabs' = [tabs EXCEPT ![currentIndex + 1].text = t]
        /\ op' = [name |-> "edit", wrote |-> NoFile, raised |-> FALSE]
        /\ UNCHANGED <<currentIndex, editors, current_file, recent_files, file_history,
                       disk, output_console, dialog, ifVars, edAll, runVars>>

\* SpecRun: one panel whose editors hold programs; the host may have replaced
\* the interpreter's streams before the panel is used.
InitRun ==
    /\ EditorIdle
    /\ instance = 1
    /\ created = 1
    /\ disposed = {}
    /\ deleted = {}
    /\ older = {}
    /\ iface = [name |-> "create", ret |-> 1, prev |-> 0, destroyed |-> FALSE]
    /\ tabs = <<[id |-> 1, text |-> "", title |-> "Untitled", files |-> {}]>>
    /\ currentIndex = 0
    /\ editors = 1
    /\ current_file = NoFile
    /\ recent_files = <<>>
    /\ file_history = <<>>
    /\ disk = InitDisk
    /\ output_console = <<>>
    /\ op = NoOp
    /\ dialog = "none"
    /\ sys_stdout \in {"host_stdout", "host_console"}
    /\ sys_stderr \in {"host_stderr", "host_console"}
    /\ run = NoRun

NextRun ==
    \/ RunCode
    \/ EditProgram
    \/ NewTab
    \/ CloseTab
    \/ SwitchTab
    \/ ClearOutput

SpecRun == InitRun /\ [][NextRun]_vars

(***************************************************************************)
(* SpecBracket: the function applied to every bounded text and position.   *)
(***************************************************************************)
BracketChars == {"(", ")", "[", "]", "a"}

Str_f_a_b_c == <<"f", "(", "a", "(", "b", ")", "c", ")">>   \* "f(a(b)c)"

BracketTexts == SeqsUpTo(BracketChars, MaxLen) \cup {Str_f_a_b_c}

InitBracket ==
    /\ text \in BracketTexts
    /\ cursor = 0
    /\ extraSel = highlightCurrentLine(text, 0)
    /\ call = NoCall
    /\ completion_prefix = <<>>
    /\ completerModel = keywords
    /\ popupVisible = FALSE
    /\ key = NoKey
    /\ NoPanel
    /\ RunIdle

\* A direct call findMatchingBracket(pos, forward=True)
FindForward ==
    \E pos \in (0 - Len(text) - 1) .. (Len(text) + 1) :
        /\ call' = [pos |-> pos, forward |-> TRUE,
                    ret |-> findMatchingBracket(text, pos, TRUE), made |-> TRUE]
        /\ UNCHANGED <<edVars, ifVars, panelVars, runVars>>

\* A direct call findMatchingBracket(pos, forward=False)
FindBackward ==
    \E pos \in (0 - Len(text) - 1) .. (Len(text) + 1) :
        /\ call' = [pos |-> pos, forward |-> FALSE,
                    ret |-> findMatchingBracket(text, pos, FALSE), made |-> TRUE]
        /\ UNCHANGED <<edVars, ifVars, panelVars, runVars>>

\* The cursor moves (click or arrow key): cursorPositionChanged runs
\* highlightCurrentLine.
MoveCursor ==
    \E c \in 0 .. Len(text) :
        /\ c # cursor
        /\ cursor' = c
        /\ extraSel' = highlightCurrentLine(text, c)
        /\ UNCHANGED <<text, call, completion_prefix, completerModel, popupVisible, key,
                       ifVars, panelVars, runVars>>

NextBracket == FindForward \/ FindBackward \/ MoveCursor

SpecBracket == InitBracket /\ [][NextBracket]_vars

(***************************************************************************)
(* Bracket structure of a text, stated without the scanning loop           *)
(***************************************************************************)
\* The stack of open-bracket positions (0-based) after reading t[0..i-1];
\* <<-1>> on top marks a closing bracket that did not pair with the top.
RECURSIVE OpenStack(_, _)
OpenStack(t, i) ==
    IF i = 0 THEN <<>>
    ELSE LET st == OpenStack(t, i - 1)
             ch == t[i]
         IN  IF st # <<>> /\ st[Len(st)] = -1 THEN st
             ELSE IF ch \in Opening THEN Append(st, i - 1)
             ELSE IF ch \in Closing
                  THEN IF st # <<>> /\ t[st[Len(st)] + 1] = brackets(ch)
                       THEN SubSeq(st, 1, Len(st) - 1)
                       ELSE Append(st, -1)
             ELSE st

\* Every bracket of t has a partner and the pairs are properly nested.
Balanced(t) == OpenStack(t, Len(t)) = <<>>

\* In a balanced text, q closes the bracket opened at p: the opener at p is
\* on top of the stack just before q is read.
Pairs(t) ==
    {pq \in (0 .. Len(t) - 1) \X (0 .. Len(t) - 1) :
        /\ t[pq[2] + 1] \in Closing
        /\ OpenStack(t, pq[2]) # <<>>
        /\ OpenStack(t, pq[2])[Len(OpenStack(t, pq[2]))] = pq[1]}

\* Occurrences of ch at the 0-based positions a..b of t
Count(t, ch, a, b) == Cardinality({k \in a .. b : t[k + 1] = ch})

\* The positions q after p that close p counting only p's own bracket type.
OwnPartnersFwd(t, p) ==
    {q \in p + 1 .. Len(t) - 1 :
        /\ t[q + 1] = brackets(t[p + 1])
        /\ Count(t, t[p + 1], p, q) = Count(t, t[q + 1], p, q)
        /\ \A k \in p .. q - 1 : Count(t, t[p + 1], p, k) > Count(t, t[q + 1], p, k)}

\* The positions q before p that open p counting only p's own bracket type.
OwnPartnersBwd(t, p) ==
    {q \in 0 .. p - 1 :
        /\ t[q + 1] = brackets(t[p + 1])
        /\ Count(t, t[p + 1], q, p) = Count(t, t[q + 1], q, p)
        /\ \A k \in q + 1 .. p : Count(t, t[p + 1], k, p) > Count(t, t[q + 1], k, p)}

ValidIndex(t, p) == p >= 0 /\ p < Len(t)

(***************************************************************************)
(* Claims on findMatchingBracket                                           *)
(***************************************************************************)
\* The general part of C1: in a text with balanced brackets a forward call at
\* an opening bracket returns its closing partner, a backward call at a closing
\* bracket its opening partner.
PartnerReturned ==
    (call.made /\ Balanced(text) /\ ValidIndex(text, call.pos)) =>
        /\ (call.forward /\ text[call.pos + 1] \in Opening) =>
               /\ call.ret.tag = "idx"
               /\ <<call.pos, call.ret.val>> \in Pairs(text)
        /\ (~call.forward /\ text[call.pos + 1] \in Closing) =>
               /\ call.ret.tag = "idx"
               /\ <<call.ret.val, call.pos>> \in Pairs(text)

\* C1 as stated: in a text with balanced brackets, a forward call at an opening
\* bracket returns the index of its closing partner and a backward call at a
\* closing bracket returns the index of its opening partner; in "f(a(b)c)"
\* position 1 forward gives 7 and position 4 forward gives 5.
C1_AsStated ==
    /\ PartnerReturned
    /\ (call.made /\ text = Str_f_a_b_c /\ call.forward /\ call.pos = 1) => call.ret = Idx(7)
    /\ (call.made /\ text = Str_f_a_b_c /\ call.forward /\ call.pos = 4) => call.ret = Idx(5)

\* C1 amended: the same, with the inner "(" of "f(a(b)c)" at its actual index:
\* position 1 forward gives 7 and position 3 forward gives 5.
C1_BalancedPartner ==
    /\ PartnerReturned
    /\ (call.made /\ text = Str_f_a_b_c /\ call.forward /\ call.pos = 1) => call.ret = Idx(7)
    /\ (call.made /\ text = Str_f_a_b_c /\ call.forward /\ call.pos = 3) => call.ret = Idx(5)

\* C1 witness: the outer "(" of "f(a(b)c)" was matched forward, over the nested pair.
C1_Witness ==
    /\ call.made /\ text = Str_f_a_b_c /\ call.forward /\ call.pos = 1
    /\ call.ret = Idx(7)

\* C2: a bracket with no depth-balanced partner of its own type in the scan
\* direction gets None, never the index of another bracket.
C2_UnmatchedIsNone ==
    (call.made /\ ValidIndex(text, call.pos)) =>
        /\ (call.forward /\ text[call.pos + 1] \in Opening
                /\ OwnPartnersFwd(text, call.pos) = {}) => call.ret = None
        /\ (~call.forward /\ text[call.pos + 1] \in Closing
                /\ OwnPartnersBwd(text, call.pos) = {}) => call.ret = None

\* C2 witness: "())" asked backward at its last ")" (the only "(" is taken by
\* the first ")") answered None.
C2_Witness ==
    /\ call.made /\ text = <<"(", ")", ")">> /\ ~call.forward /\ call.pos = 2
    /\ call.ret = None

\* C9: when the position is not a valid index into the text, or the character
\* there is not a bracket, findMatchingBracket returns None and does not raise.
C9_PreconditionFailsIsNone ==
    (call.made /\ (~ValidIndex(text, call.pos)
                     \/ text[call.pos + 1] \notin Opening \cup Closing)) =>
        call.ret = None

(***************************************************************************)
(* Claims on completion                                                    *)
(***************************************************************************)
\* The line text left of the cursor in the current state.
before == lineBefore(text, cursor)

\* C3: after a keystroke that leaves `<expr>.<partial>` before the cursor with
\* an expr that evaluates, the prefix is the partial identifier and the
\* candidates are exactly the non-private attribute names of the object.
C3_DottedCandidates ==
    (key.kind = "key" /\ dotted(before) /\ evaluates(exprOf(before))) =>
        /\ completion_prefix = trailingWord(before)
        /\ Range(completerModel) = publicAttrs(exprOf(before))

\* C4: after a keystroke that leaves a dotted expression whose expr fails to
\* evaluate, the candidates are exactly the static list, what the popup offers
\* comes from that list only, and the handler did not raise.
C4_FailedEvalStatic ==
    (key.kind = "key" /\ dotted(before) /\ ~evaluates(exprOf(before))) =>
        /\ completerModel = keywords
        /\ completionModel(completerModel, completion_prefix) \subseteq Range(keywords)
        /\ ~key.raised

\* C4 witness: "s." was typed; s does not evaluate and the list is the static one.
C4_Witness ==
    /\ key.kind = "key"
    /\ text = <<"s", ".">> /\ cursor = 2
    /\ dotted(before) /\ ~evaluates(exprOf(before))
    /\ completerModel = keywords

\* C5: after a keystroke that leaves no dotted expression before the cursor,
\* the recorded prefix is the run of word characters ending at the cursor
\* (nothing right of the cursor) and the candidates are the full static list.
C5_PrefixEndsAtCursor ==
    (key.kind = "key" /\ ~dotted(before)) =>
        /\ completion_prefix = trailingWord(before)
        /\ completerModel = keywords

\* C6: accepting a completion replaces exactly the typed prefix that ends at
\* the cursor: the buffer before that span and after the cursor is unchanged;
\* and dismissing the popup does not change the buffer.
C6_ReplacesPrefixSpan ==
    [][ /\ (key'.kind = "accept" /\ key.kind # "accept") =>
              \E completion \in Range(completerModel) :
                 text' = SubSeq(text, 1, cursor - Len(trailingWord(before)))
                         \o completion \o SubSeq(text, cursor + 1, Len(text))
        /\ (key'.kind = "dismiss" /\ key.kind # "dismiss") => text' = text ]_vars

(***************************************************************************)
(* Claims on the panel                                                     *)
(***************************************************************************)
\* At most one panel is live and _instance refers to it; createInterface
\* returned the previous panel unless a destroyInterface came in between, and
\* then a new one; after destroyInterface no panel is live.
SingleInstance ==
    /\ Cardinality(live) <= 1
    /\ instance = 0 => live = {}
    /\ instance # 0 => live = {instance}
    /\ iface.name = "create" =>
          /\ iface.ret = instance /\ iface.ret \in live
          /\ (iface.prev # 0 /\ ~iface.destroyed) => iface.ret = iface.prev
          /\ (iface.prev # 0 /\ iface.destroyed) =>
                iface.ret # iface.prev /\ iface.prev \in disposed
    /\ iface.name = "destroy" => instance = 0 /\ live = {}

\* C8: over any sequence of createInterface and destroyInterface calls there
\* is at most one live panel; createInterface returns the same panel as the
\* previous createInterface unless a destroyInterface happened in between, and
\* then a new one; destroyInterface disposes the live panel and clears the
\* reference, and changes nothing when none is live.  Live is a panel that
\* was constructed and not handed to deleteLater(); a disposed panel is never
\* referenced again, though it exists until the event loop deletes it.
C8_SingleInstance ==
    /\ []SingleInstance
    /\ [][(DestroyInterface /\ instance # 0) =>
             (instance' = 0 /\ disposed' = disposed \cup {instance})]_vars
    /\ [][(DestroyInterface /\ instance = 0) =>
             UNCHANGED <<instance, created, disposed, deleted, older, panelVars>>]_vars

\* C8 witness: a second panel is live after create, destroy, create.
C8_Witness ==
    /\ iface.name = "create" /\ iface.destroyed
    /\ iface.prev = 1 /\ iface.ret = 2 /\ instance = 2 /\ disposed = {1}

\* C10: an autosave tick writes the current file only if the current editor's
\* text differs from the text file_history holds for it, and then records the
\* new text; a tick that directly follows a tick writes nothing; without a
\* current file a tick writes nothing and changes no state.
C10_AutosaveOnlyOnChange ==
    /\ [][Autosave =>
            /\ op'.wrote # NoFile =>
                  /\ current_file # NoFile /\ op'.wrote = current_file
                  /\ historyGet(file_history, current_file)
                        # currentEditor(tabs, currentIndex).text
                  /\ disk' = [disk EXCEPT
                                ![current_file] = currentEditor(tabs, currentIndex).text]
                  /\ historyGet(file_history', current_file)
                        = currentEditor(tabs, currentIndex).text
            /\ op'.wrote = NoFile => disk' = disk /\ file_history' = file_history
            /\ current_file = NoFile =>
                  UNCHANGED <<tabs, currentIndex, editors, current_file, recent_files,
                              file_history, disk, output_console>>]_vars
    /\ [][(Autosave /\ op.name = "autosave") => op'.wrote = NoFile]_vars

\* C10 witness: a tick has just written the edited text of the current editor.
C10_Witness ==
    /\ op.name = "autosave" /\ op.wrote # NoFile /\ op.wrote = current_file
    /\ disk[current_file] = currentEditor(tabs, currentIndex).text
    /\ file_history[current_file] = currentEditor(tabs, currentIndex).text

\* C7: for every editor text, run_code catches every exception the user's code
\* raises, in the expression or in the statement run, writes an [ERROR] block
\* to the output console and returns normally.
C7_EveryExceptionReported ==
    (run.made /\ run.userRaised # "none") =>
        /\ run.propagated = "none"
        /\ "[ERROR]" \in Range(output_console)

\* C11: a file on disk is only ever overwritten, by save_file or autosave,
\* with the text of an editor tab in which that file was opened or first
\* saved, never with the text of a different tab.
C11_WrittenFromOwnTab ==
    op.wrote # NoFile =>
        /\ op.wrote \in currentEditor(tabs, currentIndex).files
        /\ disk[op.wrote] = currentEditor(tabs, currentIndex).text

\* C12: one run_code call runs the editor's text at most once, as an
\* expression or as statements, whatever the run raises.
C12_RunsAtMostOnce ==
    run.made => run.evalRuns + run.execRuns <= 1

\* C13: every run_code call, whether it printed a result, reported an
\* exception or let an exit of the user's code through, leaves sys.stdout and
\* sys.stderr the objects they were before the call and writes the
\* "[INFO] Execution time" line last; during the run both streams are the
\* same console writer.
C13_StreamsRestored ==
    [][RunCode =>
          /\ sys_stdout' = sys_stdout
          /\ sys_stderr' = sys_stderr
          /\ output_console' # <<>>
          /\ output_console'[Len(output_console')] = "[INFO] Execution time"
          /\ run'.during[1] = "multi_stdout"
          /\ run'.during[2] = run'.during[1]]_vars

\* C13 witness: the user's code raised SystemExit, which left run_code, and
\* the host's replaced streams are back with the time line last.
C13_Witness ==
    /\ run.made /\ run.propagated = "SystemExit"
    /\ sys_stdout = "host_console" /\ sys_stderr = "host_stderr"
    /\ output_console # <<>>
    /\ output_console[Len(output_console)] = "[INFO] Execution time"
    /\ run.during = <<"multi_stdout", "multi_stdout">>

====
